---- MODULE Spec2Model ----
(***************************************************************************)
(* The snake game of v-RohitSharma/Snake-Game: the simulation core         *)
(* (game.ts: keyOf, randPointExcluding, stepSnake) and the loop driver of  *)
(* the SnakeGame component (SnakeGame.tsx).                                *)
(*                                                                         *)
(* A Point [row, col] of the source is the tuple <<row, col>>; p[0] and    *)
(* p[1] of the source are p[1] and p[2] here.  Times are in microseconds.  *)
(***************************************************************************)
EXTENDS Integers, Sequences, FiniteSets, TLC

VARIABLES
    \* ---- React state of the SnakeGame component
    boardPreset,   \* useState<BoardPreset>('classic')
    snake,         \* useState<Point[]>: head first
    food,          \* useState<Point>
    gameOver,      \* useState(false)
    score,         \* useState(0)
    speedLabel,    \* useState('normal')
    running,       \* useState(true)
    \* ---- refs of the component
    directionRef,  \* useRef<Direction>('RIGHT')
    runningRef,    \* useRef(true)
    rafRef,        \* "scheduled" while a loop callback is pending, else "null"
    lastRef,       \* "null", or the timestamp of the latest callback: "t"
                   \* when it ran the game, "tPaused" when it found it paused
    msPerTickRef,  \* the tick interval
    \* ---- the closure of the loop effect that is alive
    acc,           \* let acc = 0
    loopFood,      \* the food of the render that created the loop
    loopGrid,      \* the gridSize of the render that created the loop
    highScore,     \* useState(getHighScore())
    lastAccepted,  \* history: the latest direction request that passed the
                   \* guard of lines 129-131, "RIGHT" after a reset
    \* ---- the page
    mounted,       \* the component is mounted: its state and refs exist
    crashed,       \* an error escaped a state updater: React unmounted the tree
    pending,       \* the callbacks requestAnimationFrame holds: live, of the
                   \* loop that is alive, and stale, of loops torn down
    storage,       \* localStorage['snakeGameHighScore'], "null" when absent
    storageMode,   \* how localStorage behaves in this session
    \* ---- history
    ticks,         \* simulation steps performed by the driver so far
    inputs,        \* handler calls (keys, touches, buttons, selects) so far
    lastStepDir,   \* direction of the latest step of this game, "none" before it
    tickLog,       \* the ticks of the callback that has just run, in order
    frameLog,      \* the accumulator in the callback that has just run
    idleTime,      \* frame time elapsed since the first callback of a game
                   \* no handler has touched; 0 once one was called
    \* ---- a stand-alone call of a function of game.ts
    call

gameVars == <<boardPreset, snake, food, gameOver, score, speedLabel, running,
              directionRef, runningRef, rafRef, lastRef, msPerTickRef, acc,
              loopFood, loopGrid, highScore, lastAccepted, mounted, crashed,
              pending, storage, storageMode, ticks, inputs, lastStepDir,
              tickLog, frameLog, idleTime>>

vars == <<gameVars, call>>

(***************************************************************************)
(* Bounds of the model.                                                    *)
(***************************************************************************)
\* largest grid side handed to a stand-alone stepSnake call
StepMaxGrid == 3
\* longest snake handed to a stand-alone stepSnake call
StepMaxLen == 5
\* largest grid side handed to a stand-alone randPointExcluding call
RandMaxGrid == 3
\* simulation steps the driver performs in one run of the model
MaxTicks == 2
\* handler calls in one run of the model
MaxInputs == 3
\* foods eaten in a row in a stand-alone run of the speed-up of line 168
MaxEats == 45
\* largest best score an earlier session left in localStorage
MaxStored == 1
\* side of the classic board in the model (10 in the source)
ClassicSide == 3
\* side of the large board in the model (20 in the source)
LargeSide == 4

(***************************************************************************)
(* game.ts                                                                 *)
(***************************************************************************)
Direction == {"RIGHT", "LEFT", "UP", "DOWN"}

\* the cells of a grid of side gridSize
Cells(gridSize) == (0 .. gridSize - 1) \X (0 .. gridSize - 1)

\* keyOf: the string `${p[0]},${p[1]}`
keyOf(p) == ToString(p[1]) \o "," \o ToString(p[2])

\* new Set(points.map(keyOf))
KeySet(points) == {keyOf(points[i]) : i \in 1 .. Len(points)}

\* mutant of Moved: DOWN also moves the head one column to the right
Moved_downIsDiagonal(head, dir) ==
    IF dir = "RIGHT" THEN <<head[1], head[2] + 1>>
    ELSE IF dir = "LEFT" THEN <<head[1], head[2] - 1>>
    ELSE IF dir = "UP" THEN <<head[1] - 1, head[2]>>
    ELSE <<head[1] + 1, head[2] + 1>>

\* stepSnake, lines 25-30: the head moved one cell in dir, before wrapping
Moved(head, dir) ==
    IF dir = "RIGHT" THEN <<head[1], head[2] + 1>>
    ELSE IF dir = "LEFT" THEN <<head[1], head[2] - 1>>
    ELSE IF dir = "UP" THEN <<head[1] - 1, head[2]>>
    ELSE <<head[1] + 1, head[2]>>

\* mutant of WrapCoord: > for >=, the head leaves the grid at the far border
WrapCoord_offByOne(x, gridSize) ==
    IF x < 0 THEN gridSize - 1
    ELSE IF x > gridSize THEN 0
    ELSE x

\* stepSnake, lines 33-36: one coordinate wrapped around the border
WrapCoord(x, gridSize) ==
    IF x < 0 THEN gridSize - 1
    ELSE IF x >= gridSize THEN 0
    ELSE x

\* stepSnake, lines 25-36: the candidate head
NewHead(prev, dir, gridSize) ==
    LET m == Moved(prev[1], dir)
    IN  <<WrapCoord(m[1], gridSize), WrapCoord(m[2], gridSize)>>

\* stepSnake, line 40
WillEat(newHead, foodP) == newHead[1] = foodP[1] /\ newHead[2] = foodP[2]

\* mutant of HitSelf: the tail cell is never a collision
HitSelf_tailAlwaysFree(prev, newHead, willEat) ==
    LET occupied == KeySet(prev)
        tailKey == keyOf(prev[Len(prev)])
        newHeadKey == keyOf(newHead)
    IN  newHeadKey \in occupied /\ ~(newHeadKey = tailKey)

\* mutant of HitSelf: the tail cell is a collision like any other
HitSelf_tailNeverFree(prev, newHead, willEat) ==
    keyOf(newHead) \in KeySet(prev)

\* mutant of HitSelf: || for && in the exemption
HitSelf_orForAnd(prev, newHead, willEat) ==
    LET occupied == KeySet(prev)
        tailKey == keyOf(prev[Len(prev)])
        newHeadKey == keyOf(newHead)
    IN  newHeadKey \in occupied /\ ~(newHeadKey = tailKey \/ ~willEat)

\* stepSnake, lines 38-43
HitSelf(prev, newHead, willEat) ==
    LET occupied == KeySet(prev)
        tail == prev[Len(prev)]
        tailKey == keyOf(tail)
        newHeadKey == keyOf(newHead)
    IN  newHeadKey \in occupied /\ ~(newHeadKey = tailKey /\ ~willEat)

\* mutant of Grow: the tail is popped when food was eaten, not otherwise
Grow_popWhenEating(prev, newHead, willEat) ==
    LET newSnake == <<newHead>> \o prev
    IN  IF willEat THEN SubSeq(newSnake, 1, Len(newSnake) - 1) ELSE newSnake

\* mutant of Grow: shift for pop, the new head is dropped and not the tail
Grow_shiftForPop(prev, newHead, willEat) ==
    LET newSnake == <<newHead>> \o prev
    IN  IF ~willEat THEN Tail(newSnake) ELSE newSnake

\* stepSnake, lines 48-49: [newHead, ...prev], popped when nothing was eaten
Grow(prev, newHead, willEat) ==
    LET newSnake == <<newHead>> \o prev
    IN  IF ~willEat THEN SubSeq(newSnake, 1, Len(newSnake) - 1) ELSE newSnake

\* mutant of stepSnake: a collision reports willEat as ate
stepSnake_ateOnCollision(prev, dir, foodP, gridSize) ==
    LET newHead == NewHead(prev, dir, gridSize)
        willEat == WillEat(newHead, foodP)
    IN  IF HitSelf(prev, newHead, willEat)
        THEN [snake |-> prev, ate |-> willEat, collision |-> TRUE]
        ELSE [snake |-> Grow(prev, newHead, willEat), ate |-> willEat,
              collision |-> FALSE]

\* stepSnake(prev, dir, food, gridSize); foodP is its parameter food
stepSnake(prev, dir, foodP, gridSize) ==
    LET newHead == NewHead(prev, dir, gridSize)
        willEat == WillEat(newHead, foodP)
    IN  IF HitSelf(prev, newHead, willEat)
        THEN [snake |-> prev, ate |-> FALSE, collision |-> TRUE]
        ELSE [snake |-> Grow(prev, newHead, willEat), ate |-> willEat,
              collision |-> FALSE]


\* mutant of GridFull: > for >=
GridFull_strict(exclude, gridSize) == Cardinality(exclude) > gridSize * gridSize

\* mutant of GridFull: the test is one cell early
GridFull_oneEarly(exclude, gridSize) ==
    Cardinality(exclude) >= gridSize * gridSize - 1

\* randPointExcluding, line 15: the grid is full
GridFull(exclude, gridSize) == Cardinality(exclude) >= gridSize * gridSize

\* randPointExcluding, line 17: the points one draw can produce,
\* Math.floor(Math.random() * gridSize) being any of 0 .. gridSize - 1
Draws(gridSize) == Cells(gridSize)

\* mutant of Accepted: the negation is dropped
Accepted_inverted(exclude, p) == keyOf(p) \in exclude

\* randPointExcluding, lines 18-19: the draw is returned
Accepted(exclude, p) == keyOf(p) \notin exclude

\* randPointExcluding as its callers see it: the points a call can return;
\* the empty set when it throws
randPointExcluding(exclude, gridSize) ==
    IF GridFull(exclude, gridSize) THEN {}
    ELSE {p \in Draws(gridSize) : Accepted(exclude, p)}

(***************************************************************************)
(* SnakeGame.tsx: constants                                                *)
(***************************************************************************)
INITIAL_SNAKE == <<<<0, 2>>, <<0, 1>>, <<0, 0>>>>

\* game.ts, lines 6-7: the board presets, scaled down to the model's sides
CLASSIC_GRID == ClassicSide
LARGE_GRID == LargeSide

\* SPEED_LEVELS, in microseconds (300, 200 and 120 ms)
SPEED_LEVELS == [slow |-> 300000, normal |-> 200000, fast |-> 120000]

SpeedLabels == {"slow", "normal", "fast"}

\* BOARD_PRESETS[preset].grid
BOARD_PRESETS == [classic |-> CLASSIC_GRID, large |-> LARGE_GRID]

BoardPresets == {"classic", "large"}

OPPOSITES == [RIGHT |-> "LEFT", LEFT |-> "RIGHT", UP |-> "DOWN", DOWN |-> "UP"]

\* const gridSize = BOARD_PRESETS[boardPreset].grid
gridSize == BOARD_PRESETS[boardPreset]

\* the elapsed time between two callbacks of the loop: a frame of the
\* display, a short stall and a long stall of the host (microseconds)
FrameDeltas == {200000, 400000}

(***************************************************************************)
(* SnakeGame.tsx: the best score, lines 20-34                              *)
(***************************************************************************)
\* how localStorage behaves in a session: it works, every access throws
\* (storage is blocked), or setItem throws (the quota is used up)
StorageModes == {"works", "blocked", "full"}

\* localStorage.getItem throws
ReadThrows(mode) == mode = "blocked"

\* localStorage.setItem throws
WriteThrows(mode) == mode \in {"blocked", "full"}

\* String(score), line 30
String(n) == ToString(n)

\* parseInt(s, 10), line 22, of a string that String wrote
parseInt(s) == CHOOSE n \in 0 .. 99 : String(n) = s

\* getHighScore, lines 20-26, with sto in localStorage
getHighScore(sto, mode) ==
    IF ReadThrows(mode) THEN 0
    ELSE parseInt(IF sto = "null" THEN "0" ELSE sto)

\* mutant of setHighScore: no try / catch around setItem
setHighScore_noCatch(n, sto, mode) ==
    IF WriteThrows(mode) THEN [storage |-> sto, threw |-> TRUE]
    ELSE [storage |-> String(n), threw |-> FALSE]

\* setHighScore, lines 28-34, with sto in localStorage: what localStorage
\* holds afterwards and whether an error left the function
setHighScore(n, sto, mode) ==
    IF WriteThrows(mode) THEN [storage |-> sto, threw |-> FALSE]
    ELSE [storage |-> String(n), threw |-> FALSE]

\* mutant of HighScoreDue: >= for >, and no test of gameOver
HighScoreDue_always(over, current, best) == current >= best

\* the condition of the effect of lines 205-210
HighScoreDue(over, current, best) == over /\ current > best

(***************************************************************************)
(* SnakeGame.tsx: the callbacks requestAnimationFrame holds                *)
(***************************************************************************)
\* requestAnimationFrame calls a callback of the loop that is alive
Fired(p) == [p EXCEPT !.live = @ - 1]

\* requestAnimationFrame(loop), lines 146, 177 and 180
Requested(p) == [p EXCEPT !.live = @ + 1]

\* mutant of LoopCleanup: no cancelAnimationFrame
LoopCleanup_noCancel(p, ref) == [live |-> 0, stale |-> p.stale + p.live]

\* the cleanup of the loop effect, lines 181-185: the callback rafRef holds
\* is cancelled; any other callback of the loop is one of a loop torn down
LoopCleanup(p, ref) ==
    IF ref = "null" THEN [live |-> 0, stale |-> p.stale + p.live]
    ELSE [live |-> 0, stale |-> p.stale + p.live - 1]

(***************************************************************************)
(* SnakeGame.tsx: the tick of the loop effect                              *)
(***************************************************************************)
\* mutant of SpeedUp: 1.05 for 0.95
SpeedUp_slowsDown(ms) ==
    LET slower == (ms * 105) \div 100
    IN  IF slower < 40000 THEN 40000 ELSE slower

\* Math.max(40, msPerTickRef.current * 0.95), in microseconds
SpeedUp(ms) ==
    LET faster == (ms * 95) \div 100
    IN  IF faster < 40000 THEN 40000 ELSE faster

\* What the updater handed to setSnake reads and sets: the state it is
\* applied to (snake), the states it sets (food, score, gameOver), the ref
\* it writes (ms), whether setFood was called (fed) and whether
\* randPointExcluding threw (thrown).
TickState ==
    [snake |-> snake, food |-> food, score |-> score, gameOver |-> gameOver,
     ms |-> msPerTickRef, fed |-> FALSE, thrown |-> FALSE, log |-> <<>>]

\* the game state an updater is applied to or leaves: what the log keeps
Snapshot(st) ==
    [snake |-> st.snake, food |-> st.food, score |-> st.score,
     gameOver |-> st.gameOver, ms |-> st.ms]

\* mutant of Tick: the collision branch returns prev without setGameOver
Tick_forgetsGameOver(st) ==
    LET r == stepSnake(st.snake, directionRef, loopFood, loopGrid)
        placed == randPointExcluding(KeySet(r.snake), loopGrid)
        outcomes ==
            IF r.collision THEN {st}
            ELSE IF r.ate THEN
                IF placed = {}
                THEN {[st EXCEPT !.score = @ + 1, !.thrown = TRUE]}
                ELSE {[st EXCEPT !.snake = r.snake, !.score = @ + 1,
                                 !.food = p, !.fed = TRUE, !.ms = SpeedUp(@)]
                        : p \in placed}
            ELSE {[st EXCEPT !.snake = r.snake]}
    IN  IF st.thrown THEN {st}
        ELSE {[o EXCEPT !.log =
                    Append(@, [pre |-> Snapshot(st), post |-> Snapshot(o),
                               collision |-> r.collision, ate |-> r.ate,
                               thrown |-> o.thrown])]
                : o \in outcomes}

\* the updater of setSnake, lines 157-171, applied to st: the set of its
\* outcomes, one for each point randPointExcluding can return
Tick(st) ==
    LET r == stepSnake(st.snake, directionRef, loopFood, loopGrid)
        placed == randPointExcluding(KeySet(r.snake), loopGrid)
        outcomes ==
            IF r.collision THEN {[st EXCEPT !.gameOver = TRUE]}
            ELSE IF r.ate THEN
                IF placed = {}
                THEN {[st EXCEPT !.score = @ + 1, !.thrown = TRUE]}
                ELSE {[st EXCEPT !.snake = r.snake, !.score = @ + 1,
                                 !.food = p, !.fed = TRUE, !.ms = SpeedUp(@)]
                        : p \in placed}
            ELSE {[st EXCEPT !.snake = r.snake]}
    IN  IF st.thrown THEN {st}
        ELSE {[o EXCEPT !.log =
                    Append(@, [pre |-> Snapshot(st), post |-> Snapshot(o),
                               collision |-> r.collision, ate |-> r.ate,
                               thrown |-> o.thrown])]
                : o \in outcomes}

\* n updaters applied one after the other
RECURSIVE Ticks(_, _)
Ticks(n, sts) ==
    IF n = 0 THEN sts
    ELSE Ticks(n - 1, UNION {Tick(st) : st \in sts})

\* mutant of LoopRuns: if for while, one tick in a callback at most
LoopRuns_ifForWhile(dt, eager) ==
    LET acc1 == acc + (IF lastRef = "null" THEN 0 ELSE dt)
        ms0 == msPerTickRef
    IN  IF acc1 < ms0
        THEN {[st |-> TickState, acc |-> acc1, n |-> 0, total |-> acc1,
               ms |-> ms0]}
        ELSE IF eager THEN
            {[st |-> s1, acc |-> acc1 - s1.ms, n |-> 1, total |-> acc1,
              ms |-> s1.ms] : s1 \in Tick(TickState)}
        ELSE {[st |-> s, acc |-> acc1 - ms0, n |-> 1, total |-> acc1,
               ms |-> ms0] : s \in Tick(TickState)}

\* mutant of LoopRuns: line 150 sets lastRef.current = t in every callback,
\* no elapsed time is ever added
LoopRuns_markerAlwaysReset(dt, eager) ==
    {[st |-> TickState, acc |-> acc, n |-> 0, total |-> acc,
      ms |-> msPerTickRef]}

\* The while loop of the callback, lines 150-175, after dt has elapsed
\* since the previous callback: the outcomes of its n ticks, with st the
\* state the updaters leave, total the accumulator after line 151, acc and
\* ms the accumulator and msPerTick when the callback returns.
\* React runs the first updater of a callback at once when the component
\* has no update pending (eager) and every other updater when it renders,
\* after the callback: only an eager updater's write to msPerTickRef is
\* seen by line 173.
LoopRuns(dt, eager) ==
    LET acc1 == acc + (IF lastRef = "null" THEN 0 ELSE dt)
        ms0 == msPerTickRef
    IN  IF acc1 < ms0
        THEN {[st |-> TickState, acc |-> acc1, n |-> 0, total |-> acc1,
               ms |-> ms0]}
        ELSE IF eager THEN
            UNION {
                LET a1 == acc1 - s1.ms
                    k == a1 \div s1.ms
                IN  {[st |-> s, acc |-> a1 % s1.ms, n |-> 1 + k,
                      total |-> acc1, ms |-> s1.ms]
                        : s \in Ticks(k, {s1})}
                : s1 \in Tick(TickState)}
        ELSE {[st |-> s, acc |-> acc1 % ms0, n |-> acc1 \div ms0,
               total |-> acc1, ms |-> ms0]
                : s \in Ticks(acc1 \div ms0, {TickState})}

\* mutant of CommitLoopRun: the effect has no `if (gameOver) return`, the
\* loop is set up again after a game over
CommitLoopRun_loopsAfterGameOver(run) ==
    LET st == run.st
        restart == st.fed \/ st.gameOver # gameOver
        due == ~st.thrown /\ HighScoreDue(st.gameOver, st.score, highScore)
        write == setHighScore(st.score, storage, storageMode)
        error == st.thrown \/ (due /\ write.threw)
        requested == Requested(Fired(pending))
    IN  /\ snake' = st.snake
        /\ food' = st.food
        /\ score' = st.score
        /\ gameOver' = st.gameOver
        /\ msPerTickRef' = st.ms
        /\ crashed' = error
        /\ mounted' = ~error
        /\ highScore' = IF due /\ ~write.threw THEN st.score ELSE highScore
        /\ storage' = IF due THEN write.storage ELSE storage
        /\ pending' = IF error THEN LoopCleanup(requested, "scheduled")
                      ELSE IF restart
                      THEN Requested(LoopCleanup(requested, "scheduled"))
                      ELSE requested
        /\ rafRef' = IF error THEN "null" ELSE "scheduled"
        /\ lastRef' = IF error \/ restart THEN "null" ELSE "t"
        /\ acc' = IF error \/ restart THEN 0 ELSE run.acc
        /\ loopFood' = IF restart THEN st.food ELSE loopFood
        /\ loopGrid' = IF restart THEN gridSize ELSE loopGrid

\* The render that follows the state updates of run and its effects: the
\* loop effect, lines 139-186, is torn down and set up again when food or
\* gameOver changed, after the callback asked for the next one (requested,
\* line 177); the effect of lines 205-210 writes the best score when it is
\* due; an error of an updater or of an effect unmounts the component,
\* which tears the loop down.
CommitLoopRun(run) ==
    LET st == run.st
        restart == st.fed \/ st.gameOver # gameOver
        due == ~st.thrown /\ HighScoreDue(st.gameOver, st.score, highScore)
        write == setHighScore(st.score, storage, storageMode)
        error == st.thrown \/ (due /\ write.threw)
        requested == Requested(Fired(pending))
    IN  /\ snake' = st.snake
        /\ food' = st.food
        /\ score' = st.score
        /\ gameOver' = st.gameOver
        /\ msPerTickRef' = st.ms
        /\ crashed' = error
        /\ mounted' = ~error
        /\ highScore' = IF due /\ ~write.threw THEN st.score ELSE highScore
        /\ storage' = IF due THEN write.storage ELSE storage
        /\ pending' = IF error \/ st.gameOver
                      THEN LoopCleanup(requested, "scheduled")
                      ELSE IF restart
                      THEN Requested(LoopCleanup(requested, "scheduled"))
                      ELSE requested
        /\ rafRef' = IF error \/ st.gameOver THEN "null" ELSE "scheduled"
        /\ lastRef' = IF error \/ restart THEN "null" ELSE "t"
        /\ acc' = IF error \/ restart THEN 0 ELSE run.acc
        /\ loopFood' = IF restart /\ ~st.gameOver THEN st.food ELSE loopFood
        /\ loopGrid' = IF restart /\ ~st.gameOver THEN gridSize ELSE loopGrid

\* no callback has run the game since the latest handler
NoFrame == [ran |-> FALSE, total |-> 0, interval |-> 0, n |-> 0, acc |-> 0,
            ms |-> 0]

\* loop, lines 143-178: one callback of requestAnimationFrame
Frame(dt, eager) ==
    /\ mounted
    /\ ~crashed
    /\ pending.live > 0
    /\ IF ~runningRef
       THEN /\ lastRef' = "tPaused"
            /\ pending' = Requested(Fired(pending))
            /\ UNCHANGED <<boardPreset, snake, food, gameOver, score,
                           speedLabel, running, directionRef, runningRef,
                           rafRef, msPerTickRef, acc, loopFood, loopGrid,
                           highScore, storage, mounted, crashed, ticks,
                           inputs, lastStepDir>>
            /\ tickLog' = <<>>
            /\ frameLog' = NoFrame
       ELSE \E run \in LoopRuns(dt, eager) :
            /\ ticks + run.n <= MaxTicks
            /\ CommitLoopRun(run)
            /\ ticks' = ticks + run.n
            /\ lastStepDir' = IF run.n > 0 THEN directionRef ELSE lastStepDir
            /\ tickLog' = run.st.log
            /\ frameLog' = [ran |-> TRUE, total |-> run.total,
                            interval |-> msPerTickRef, n |-> run.n,
                            acc |-> run.acc, ms |-> run.ms]
            /\ UNCHANGED <<boardPreset, speedLabel, running, directionRef,
                           runningRef, inputs>>
    /\ idleTime' = IF inputs > 0 THEN 0
                   ELSE IF idleTime < 0 THEN 0 ELSE idleTime + dt
    /\ UNCHANGED <<lastAccepted, storageMode, call>>

(***************************************************************************)
(* SnakeGame.tsx: the handlers                                             *)
(***************************************************************************)
\* a handler is called: one more input
Input ==
    /\ mounted
    /\ ~crashed
    /\ inputs < MaxInputs
    /\ inputs' = inputs + 1
    /\ tickLog' = <<>>
    /\ frameLog' = NoFrame
    /\ idleTime' = 0
    /\ UNCHANGED <<highScore, storage, storageMode, mounted>>

\* mutant of RequestDirection: the request passes the guard and line 131
\* does not write it to directionRef
RequestDirection_dropsRequest(nextDir) ==
    /\ Input
    /\ directionRef' = directionRef
    /\ lastAccepted' = IF OPPOSITES[nextDir] # directionRef
                       THEN nextDir ELSE lastAccepted
    /\ UNCHANGED <<boardPreset, snake, food, gameOver, score, speedLabel,
                   running, runningRef, rafRef, lastRef, msPerTickRef, acc,
                   loopFood, loopGrid, crashed, pending, ticks, lastStepDir,
                   call>>

\* mutant of RequestDirection: the handler also empties the accumulator of
\* the loop
RequestDirection_clearsAcc(nextDir) ==
    /\ Input
    /\ directionRef' = IF OPPOSITES[nextDir] # directionRef
                       THEN nextDir ELSE directionRef
    /\ lastAccepted' = IF OPPOSITES[nextDir] # directionRef
                       THEN nextDir ELSE lastAccepted
    /\ acc' = 0
    /\ UNCHANGED <<boardPreset, snake, food, gameOver, score, speedLabel,
                   running, runningRef, rafRef, lastRef, msPerTickRef,
                   loopFood, loopGrid, crashed, pending, ticks, lastStepDir,
                   call>>

\* lines 129-131 (and part_002 lines 131-133, 156-158): the guard on a
\* direction request
RequestDirection(nextDir) ==
    /\ Input
    /\ directionRef' = IF OPPOSITES[nextDir] # directionRef
                       THEN nextDir ELSE directionRef
    /\ lastAccepted' = IF OPPOSITES[nextDir] # directionRef
                       THEN nextDir ELSE lastAccepted
    /\ UNCHANGED <<boardPreset, snake, food, gameOver, score, speedLabel,
                   running, runningRef, rafRef, lastRef, msPerTickRef, acc,
                   loopFood, loopGrid, crashed, pending, ticks, lastStepDir,
                   call>>

\* handleKeyDown with an arrow key (any other key returns at line 126)
handleKeyDown(nextDir) == RequestDirection(nextDir)

\* handleDPadPress
handleDPadPress(direction) == RequestDirection(direction)

\* the direction of a swipe of (deltaX, deltaY), threshold 30; "none" when
\* the touch moved too little
SwipeDir(deltaX, deltaY) ==
    LET absX == IF deltaX < 0 THEN -deltaX ELSE deltaX
        absY == IF deltaY < 0 THEN -deltaY ELSE deltaY
    IN  IF absX > absY /\ absX > 30
        THEN (IF deltaX > 0 THEN "RIGHT" ELSE "LEFT")
        ELSE IF absY > 30
        THEN (IF deltaY > 0 THEN "DOWN" ELSE "UP")
        ELSE "none"

\* the finger's travel in a swipe, per axis
SwipeDeltas == {-50, 0, 50}

\* handleTouchStart followed by handleTouchEnd: touchStartRef is set by the
\* first, read and cleared by the second and used by nothing else
handleTouchEnd(deltaX, deltaY) ==
    LET swipeDir == SwipeDir(deltaX, deltaY)
    IN  IF swipeDir # "none"
        THEN RequestDirection(swipeDir)
        ELSE Input /\ UNCHANGED <<boardPreset, snake, food, gameOver, score,
                                   speedLabel, running, directionRef,
                                   runningRef, rafRef, lastRef, msPerTickRef,
                                   acc, loopFood, loopGrid, crashed, pending,
                                   lastAccepted, ticks, lastStepDir, call>>

\* mutant of reset: line 190 is missing, the direction is kept
reset_keepsDirection(grid) ==
    /\ directionRef' = directionRef
    /\ snake' = INITIAL_SNAKE
    /\ gameOver' = FALSE
    /\ score' = 0
    /\ msPerTickRef' = SPEED_LEVELS.normal
    /\ food' \in randPointExcluding(KeySet(INITIAL_SNAKE), grid)
    /\ running' = TRUE
    /\ runningRef' = TRUE
    /\ lastRef' = "null"
    /\ rafRef' = "scheduled"
    /\ pending' = Requested(LoopCleanup(pending, rafRef))
    /\ acc' = 0
    /\ loopFood' = food'
    /\ loopGrid' = grid
    /\ lastStepDir' = "none"
    /\ lastAccepted' = "RIGHT"

\* mutant of reset: line 193 is missing, the score is kept
reset_keepsScore(grid) ==
    /\ directionRef' = "RIGHT"
    /\ snake' = INITIAL_SNAKE
    /\ gameOver' = FALSE
    /\ score' = score
    /\ msPerTickRef' = SPEED_LEVELS.normal
    /\ food' \in randPointExcluding(KeySet(INITIAL_SNAKE), grid)
    /\ running' = TRUE
    /\ runningRef' = TRUE
    /\ lastRef' = "null"
    /\ rafRef' = "scheduled"
    /\ pending' = Requested(LoopCleanup(pending, rafRef))
    /\ acc' = 0
    /\ loopFood' = food'
    /\ loopGrid' = grid
    /\ lastStepDir' = "none"
    /\ lastAccepted' = "RIGHT"

\* setRunning(true) and reset, lines 188-197, with the gridSize of the
\* render reset comes from, then the render and its effects: the running
\* effect (lines 110-113) and the loop effect, set up again because food is
\* a new array
reset(grid) ==
    /\ directionRef' = "RIGHT"
    /\ snake' = INITIAL_SNAKE
    /\ gameOver' = FALSE
    /\ score' = 0
    /\ msPerTickRef' = SPEED_LEVELS.normal
    /\ food' \in randPointExcluding(KeySet(INITIAL_SNAKE), grid)
    /\ running' = TRUE
    /\ runningRef' = TRUE
    /\ lastRef' = "null"
    /\ rafRef' = "scheduled"
    /\ pending' = Requested(LoopCleanup(pending, rafRef))
    /\ acc' = 0
    /\ loopFood' = food'
    /\ loopGrid' = grid
    /\ lastStepDir' = "none"
    /\ lastAccepted' = "RIGHT"

\* the New button, line 307: setRunning(true); reset()
New ==
    /\ Input
    /\ reset(gridSize)
    /\ UNCHANGED <<boardPreset, speedLabel, crashed, ticks, call>>

\* mutant of TogglePause: the running effect does not clear lastRef
TogglePause_keepsLastRef ==
    /\ Input
    /\ running' = ~running
    /\ runningRef' = ~running
    /\ UNCHANGED <<boardPreset, snake, food, gameOver, score, speedLabel,
                   directionRef, rafRef, lastRef, msPerTickRef, acc, loopFood,
                   loopGrid, crashed, pending, lastAccepted, ticks,
                   lastStepDir, call>>

\* mutant of TogglePause: setRunning(false) for setRunning(r => !r)
TogglePause_onlyPauses ==
    /\ Input
    /\ running' = FALSE
    /\ runningRef' = FALSE
    /\ UNCHANGED <<boardPreset, snake, food, gameOver, score, speedLabel,
                   directionRef, rafRef, lastRef, msPerTickRef, acc, loopFood,
                   loopGrid, crashed, pending, lastAccepted, ticks,
                   lastStepDir, call>>

\* the Pause / Resume button, line 304, and the running effect
TogglePause ==
    /\ Input
    /\ running' = ~running
    /\ runningRef' = ~running
    /\ lastRef' = IF ~running THEN "null" ELSE lastRef
    /\ UNCHANGED <<boardPreset, snake, food, gameOver, score, speedLabel,
                   directionRef, rafRef, msPerTickRef, acc, loopFood,
                   loopGrid, crashed, pending, lastAccepted, ticks,
                   lastStepDir, call>>

\* mutant of SelectSpeed: the effect carries a speed-up earned from eaten
\* food over to the new preset
SelectSpeed_keepsSpeedUp(label) ==
    /\ Input
    /\ label # speedLabel
    /\ speedLabel' = label
    /\ msPerTickRef' = IF score > 0 THEN SpeedUp(SPEED_LEVELS[label])
                       ELSE SPEED_LEVELS[label]
    /\ UNCHANGED <<boardPreset, snake, food, gameOver, score, running,
                   directionRef, runningRef, rafRef, lastRef, acc, loopFood,
                   loopGrid, crashed, pending, lastAccepted, ticks,
                   lastStepDir, call>>

\* the Difficulty select, line 290, and the speedLabel effect, lines 120-122
SelectSpeed(label) ==
    /\ Input
    /\ label # speedLabel
    /\ speedLabel' = label
    /\ msPerTickRef' = SPEED_LEVELS[label]
    /\ UNCHANGED <<boardPreset, snake, food, gameOver, score, running,
                   directionRef, runningRef, rafRef, lastRef, acc, loopFood,
                   loopGrid, crashed, pending, lastAccepted, ticks,
                   lastStepDir, call>>

\* mutant of SelectBoard: the effect of lines 199-202 is missing
SelectBoard_noReset(preset) ==
    /\ Input
    /\ preset # boardPreset
    /\ boardPreset' = preset
    /\ UNCHANGED <<snake, food, gameOver, score, running, directionRef,
                   runningRef, rafRef, lastRef, msPerTickRef, acc,
                   loopFood, loopGrid, pending, lastAccepted, lastStepDir>>
    /\ UNCHANGED <<speedLabel, crashed, ticks, call>>

\* mutant of SelectBoard: the effect calls a reset that was created with
\* the gridSize of the render before
SelectBoard_resetsWithOldGrid(preset) ==
    /\ Input
    /\ preset # boardPreset
    /\ boardPreset' = preset
    /\ reset(gridSize)
    /\ UNCHANGED <<speedLabel, crashed, ticks, call>>

\* the Board Size select, line 298, and the effect of lines 199-202, which
\* runs when gridSize changed
SelectBoard(preset) ==
    /\ Input
    /\ preset # boardPreset
    /\ boardPreset' = preset
    /\ IF BOARD_PRESETS[preset] # gridSize
       THEN reset(BOARD_PRESETS[preset])
       ELSE UNCHANGED <<snake, food, gameOver, score, running, directionRef,
                        runningRef, rafRef, lastRef, msPerTickRef, acc,
                        loopFood, loopGrid, pending, lastAccepted,
                        lastStepDir>>
    /\ UNCHANGED <<speedLabel, crashed, ticks, call>>

(***************************************************************************)
(* The game: the component after it mounted, and its events                *)
(***************************************************************************)
\* The page is left and the component unmounted: the cleanup of the loop
\* effect runs and nothing of the component runs any more.  The model
\* leaves the state of the component as it was when it was unmounted.
Unmount ==
    /\ mounted
    /\ mounted' = FALSE
    /\ pending' = LoopCleanup(pending, rafRef)
    /\ rafRef' = "null"
    /\ lastRef' = "null"
    /\ tickLog' = <<>>
    /\ frameLog' = NoFrame
    /\ UNCHANGED <<boardPreset, snake, food, gameOver, score, speedLabel,
                   running, directionRef, runningRef, msPerTickRef, acc,
                   loopFood, loopGrid, highScore, lastAccepted, crashed,
                   storage, storageMode, ticks, inputs, lastStepDir,
                   idleTime, call>>

\* no stand-alone call is under study
NoCall == [fn |-> "none"]

\* the component has mounted in a session where localStorage holds sto and
\* behaves as mode says
Mounted(sto, mode) ==
    /\ boardPreset = "classic"
    /\ snake = INITIAL_SNAKE
    /\ food \in randPointExcluding(KeySet(INITIAL_SNAKE), CLASSIC_GRID)
    /\ gameOver = FALSE
    /\ score = 0
    /\ speedLabel = "normal"
    /\ running = TRUE
    /\ directionRef = "RIGHT"
    /\ runningRef = TRUE
    /\ rafRef = "scheduled"
    /\ lastRef = "null"
    /\ msPerTickRef = SPEED_LEVELS.normal
    /\ acc = 0
    /\ loopFood = food
    /\ loopGrid = CLASSIC_GRID
    /\ highScore = getHighScore(sto, mode)
    /\ lastAccepted = "RIGHT"
    /\ mounted = TRUE
    /\ crashed = FALSE
    /\ pending = [live |-> 1, stale |-> 0]
    /\ storage = sto
    /\ storageMode = mode
    /\ ticks = 0
    /\ inputs = 0
    /\ lastStepDir = "none"
    /\ tickLog = <<>>
    /\ frameLog = NoFrame
    /\ idleTime = -1
    /\ call = NoCall

\* a first visit with a working localStorage
Init == Mounted("null", "works")

Next ==
    \/ \E dt \in FrameDeltas, eager \in BOOLEAN : Frame(dt, eager)
    \/ \E d \in Direction : handleKeyDown(d)
    \/ \E d \in Direction : handleDPadPress(d)
    \/ \E dx \in SwipeDeltas, dy \in SwipeDeltas : handleTouchEnd(dx, dy)
    \/ New
    \/ TogglePause
    \/ \E l \in SpeedLabels : SelectSpeed(l)
    \/ \E b \in BoardPresets : SelectBoard(b)
    \/ Unmount

Spec == Init /\ [][Next]_vars

(***************************************************************************)
(* The end of a long game.  The player has steered the snake along the     *)
(* closed path that runs right along a row and steps down at its end,      *)
(* which starts with the cells of the initial snake and passes every cell  *)
(* once; the snake has eaten all but one or two cells full and the food    *)
(* lies on the next cell of the path.  The budgets of ticks and inputs     *)
(* and the history variables count from this state.                        *)
(***************************************************************************)
\* the k-th cell of that path on a grid of side g
PathCell(k, g) ==
    LET row == (k % (g * g)) \div g
    IN  <<row, ((k % g) - row) % g>>

\* the direction from the k-th cell of the path to the next
PathDir(k, g) == IF (k + 1) % g = 0 THEN "DOWN" ELSE "RIGHT"

\* line 168 applied n times to ms
RECURSIVE SpeedUps(_, _)
SpeedUps(n, ms) == IF n = 0 THEN ms ELSE SpeedUps(n - 1, SpeedUp(ms))

EndgameInit ==
    \E free \in {1, 2}, h \in 0 .. CLASSIC_GRID * CLASSIC_GRID - 1 :
        LET g == CLASSIC_GRID
            len == g * g - free
        IN  /\ boardPreset = "classic"
            /\ snake = [i \in 1 .. len |-> PathCell(h + g * g - (i - 1), g)]
            /\ food = PathCell(h + 1, g)
            /\ gameOver = FALSE
            /\ score = len - 3
            /\ speedLabel = "normal"
            /\ running = TRUE
            /\ directionRef = PathDir(h + g * g - 1, g)
            /\ runningRef = TRUE
            /\ rafRef = "scheduled"
            /\ lastRef = "null"
            /\ msPerTickRef = SpeedUps(len - 3, SPEED_LEVELS.normal)
            /\ acc = 0
            /\ loopFood = food
            /\ loopGrid = g
            /\ highScore = 0
            /\ lastAccepted = PathDir(h + g * g - 1, g)
            /\ mounted = TRUE
            /\ crashed = FALSE
            /\ pending = [live |-> 1, stale |-> 0]
            /\ storage = "null"
            /\ storageMode = "works"
            /\ ticks = 0
            /\ inputs = 0
            /\ lastStepDir = PathDir(h + g * g - 1, g)
            /\ tickLog = <<>>
            /\ frameLog = NoFrame
            /\ idleTime = 0
            /\ call = NoCall

\* the game from its mount and from the end of a long game
EndgameSpec == (Init \/ EndgameInit) /\ [][Next]_vars

(***************************************************************************)
(* The game in every session: localStorage holds nothing or the best score *)
(* an earlier session wrote, and works, is blocked or is full.             *)
(***************************************************************************)
HighScoreInit ==
    \E sto \in {"null"} \cup {String(n) : n \in 1 .. MaxStored},
       mode \in StorageModes :
        Mounted(sto, mode)

HighScoreSpec == HighScoreInit /\ [][Next]_vars

(***************************************************************************)
(* Stand-alone calls of stepSnake, as the unit tests make them: the        *)
(* component is not mounted.  The snakes are the chains of toroidally      *)
(* adjacent, distinct cells, the shape every snake of the game has.        *)
(***************************************************************************)
NotMounted ==
    /\ boardPreset = "classic"
    /\ snake = INITIAL_SNAKE
    /\ food = <<1, 0>>
    /\ gameOver = FALSE
    /\ score = 0
    /\ speedLabel = "normal"
    /\ running = TRUE
    /\ directionRef = "RIGHT"
    /\ runningRef = TRUE
    /\ rafRef = "null"
    /\ lastRef = "null"
    /\ msPerTickRef = SPEED_LEVELS.normal
    /\ acc = 0
    /\ loopFood = <<1, 0>>
    /\ loopGrid = CLASSIC_GRID
    /\ highScore = 0
    /\ lastAccepted = "RIGHT"
    /\ mounted = FALSE
    /\ crashed = FALSE
    /\ pending = [live |-> 0, stale |-> 0]
    /\ storage = "null"
    /\ storageMode = "works"
    /\ ticks = 0
    /\ inputs = 0
    /\ lastStepDir = "none"
    /\ tickLog = <<>>
    /\ frameLog = NoFrame
    /\ idleTime = 0

\* the cell one step from cell c in direction d on the torus of side g,
\* by modular arithmetic
Toward(c, d, g) ==
    LET dr == IF d = "UP" THEN -1 ELSE IF d = "DOWN" THEN 1 ELSE 0
        dc == IF d = "LEFT" THEN -1 ELSE IF d = "RIGHT" THEN 1 ELSE 0
    IN  <<(c[1] + dr) % g, (c[2] + dc) % g>>

\* the cells one step away from cell c on a grid of side g
Neighbours(c, g) == {Toward(c, d, g) : d \in Direction}

\* the snakes of n cells on a grid of side g, head first
RECURSIVE Chains(_, _)
Chains(g, n) ==
    IF n = 1 THEN {<<c>> : c \in Cells(g)}
    ELSE UNION {{Append(s, c) : c \in Neighbours(s[Len(s)], g)
                                        \ {s[i] : i \in 1 .. Len(s)}}
                    : s \in Chains(g, n - 1)}

StepInit ==
    /\ NotMounted
    /\ \E g \in 2 .. StepMaxGrid, n \in 1 .. StepMaxLen :
        \E s \in Chains(g, n), d \in Direction, f \in Cells(g) :
            call = [fn |-> "stepSnake", pc |-> "called", prev |-> s,
                    dir |-> d, food |-> f, gridSize |-> g]

\* the call returns
StepCall ==
    /\ call.fn = "stepSnake"
    /\ call.pc = "called"
    /\ call' = [fn |-> "stepSnake", pc |-> "returned", prev |-> call.prev,
                dir |-> call.dir, food |-> call.food,
                gridSize |-> call.gridSize,
                result |-> stepSnake(call.prev, call.dir, call.food,
                                     call.gridSize)]
    /\ UNCHANGED gameVars

StepNext == StepCall

StepSpec == StepInit /\ [][StepNext]_vars

(***************************************************************************)
(* Stand-alone calls of randPointExcluding, statement by statement: every  *)
(* grid up to RandMaxGrid and every set of its cells, passed as the set of  *)
(* their keys the way the callers build it; cells remembers the points.    *)
(***************************************************************************)
RandInit ==
    /\ NotMounted
    /\ \E g \in 1 .. RandMaxGrid :
        \E excluded \in SUBSET Cells(g) :
            call = [fn |-> "randPointExcluding", pc |-> "called",
                    cells |-> excluded,
                    exclude |-> {keyOf(c) : c \in excluded},
                    gridSize |-> g, drawn |-> <<>>]

\* lines 14-15: throw when the grid is full, else enter the loop
RandEnter ==
    /\ call.fn = "randPointExcluding"
    /\ call.pc = "called"
    /\ call' = [call EXCEPT !.pc = IF GridFull(call.exclude, call.gridSize)
                                   THEN "thrown" ELSE "sampling"]
    /\ UNCHANGED gameVars

\* lines 17-19: one iteration of while (true); drawn is the point drawn
RandDraw ==
    /\ call.fn = "randPointExcluding"
    /\ call.pc = "sampling"
    /\ \E p \in Draws(call.gridSize) :
        call' = [call EXCEPT !.drawn = p,
                             !.pc = IF Accepted(call.exclude, p)
                                    THEN "returned" ELSE "sampling"]
    /\ UNCHANGED gameVars

RandNext == RandEnter \/ RandDraw

RandSpec == RandInit /\ [][RandNext]_vars

\* a free cell is drawn: of the draws of Math.random, which are independent
\* and uniform, one eventually falls on a free cell when there is one
RandDrawFree ==
    /\ RandDraw
    /\ call'.pc = "returned"

RandFairSpec == RandSpec /\ WF_vars(RandEnter) /\ WF_vars(RandDrawFree)

(***************************************************************************)
(* The speed-up of SnakeGame.tsx line 168 on its own, applied food after   *)
(* food from the base interval of each speed preset: the boards of the     *)
(* model are too small for the snake to eat its way down to the 40 ms      *)
(* floor, the 10 x 10 board is not.                                        *)
(***************************************************************************)
SpeedInit ==
    /\ NotMounted
    /\ \E l \in SpeedLabels :
        call = [fn |-> "speedUp", base |-> SPEED_LEVELS[l],
                before |-> SPEED_LEVELS[l], ms |-> SPEED_LEVELS[l],
                eats |-> 0]

\* line 168, once more
SpeedEat ==
    /\ call.fn = "speedUp"
    /\ call.eats < MaxEats
    /\ call' = [call EXCEPT !.before = call.ms, !.ms = SpeedUp(call.ms),
                            !.eats = @ + 1]
    /\ UNCHANGED gameVars

SpeedNext == SpeedEat

SpeedSpec == SpeedInit /\ [][SpeedNext]_vars

(***************************************************************************)
(* The claims about stepSnake, checked under StepSpec                      *)
(***************************************************************************)
\* a stand-alone call of stepSnake has returned
StepReturned == call.fn = "stepSnake" /\ call.pc = "returned"

\* the candidate head of the call under study
Candidate == Toward(call.prev[1], call.dir, call.gridSize)

\* the cells of a sequence of points
CellsOf(points) == {points[i] : i \in 1 .. Len(points)}

\* no cell occurs twice in the sequence
NoDuplicates(points) ==
    \A i, j \in 1 .. Len(points) : i < j => points[i] # points[j]

\* C1: for a valid snake of length >= 2 and a direction that is not the
\* reverse of its travel (the candidate head is not the second segment), a
\* call that reports no collision returns a snake of the same length when
\* ate is false and one longer when ate is true, and ate is true exactly
\* when the wrapped candidate head is the food cell.
C1_LengthAndAte ==
    (/\ StepReturned
     /\ Len(call.prev) >= 2
     /\ Candidate # call.prev[2]
     /\ ~call.result.collision)
    => /\ call.result.ate <=> (Candidate = call.food)
       /\ ~call.result.ate => Len(call.result.snake) = Len(call.prev)
       /\ call.result.ate => Len(call.result.snake) = Len(call.prev) + 1

\* C1 witness: a non-reversing step that ate and grew by one
C1_Witness ==
    /\ StepReturned
    /\ Len(call.prev) >= 2
    /\ Candidate # call.prev[2]
    /\ ~call.result.collision
    /\ call.result.ate
    /\ Len(call.result.snake) = Len(call.prev) + 1

C3_SelfCollision ==
    StepReturned
    => /\ (\E i \in 1 .. Len(call.prev) - 1 : call.prev[i] = Candidate)
          => call.result = [snake |-> call.prev, ate |-> FALSE,
                            collision |-> TRUE]
       /\ ~(call.result.collision /\ call.result.ate)

\* C3 witness: the head runs into a segment that is neither the second nor
\* the tail, with the food on that cell
C3_Witness ==
    /\ StepReturned
    /\ \E i \in 3 .. Len(call.prev) - 1 : call.prev[i] = Candidate
    /\ call.food = Candidate
    /\ call.result.collision
    /\ call.result.snake = call.prev

\* C4: when the candidate head is the tail cell and the food is not on it,
\* the call reports no collision and returns a snake that starts with the
\* candidate head, is as long as the input and has no duplicate cell.
C4_TailVacates ==
    (/\ StepReturned
     /\ Candidate = call.prev[Len(call.prev)]
     /\ call.food # Candidate)
    => /\ ~call.result.collision
       /\ call.result.snake[1] = Candidate
       /\ Len(call.result.snake) = Len(call.prev)
       /\ NoDuplicates(call.result.snake)

\* C4 witness: a snake of four cells or more steps into its tail cell
C4_Witness ==
    /\ StepReturned
    /\ Len(call.prev) >= 4
    /\ Candidate = call.prev[Len(call.prev)]
    /\ call.food # Candidate
    /\ ~call.result.collision

\* C5: when the candidate head is the tail cell and the food is on it, the
\* call returns collision = true, ate = false and the input snake.
C5_TailStaysWhenEating ==
    (/\ StepReturned
     /\ Candidate = call.prev[Len(call.prev)]
     /\ call.food = Candidate)
    => call.result = [snake |-> call.prev, ate |-> FALSE, collision |-> TRUE]

\* C5 witness: the food is on the tail cell and the head steps onto it
C5_Witness ==
    /\ StepReturned
    /\ Len(call.prev) >= 2
    /\ Candidate = call.prev[Len(call.prev)]
    /\ call.food = Candidate
    /\ call.result.collision

(***************************************************************************)
(* The claims about randPointExcluding, checked under RandSpec and         *)
(* RandFairSpec                                                            *)
(***************************************************************************)
\* the call under study is a stand-alone call of randPointExcluding
RandCall == call.fn = "randPointExcluding"

\* the cells of the grid of the call that are not excluded
FreeCells == Cells(call.gridSize) \ call.cells

\* C6: for every grid size and every excluded set of cells of the grid that
\* leaves a cell free, a point returned by randPointExcluding has both
\* coordinates in 0 .. gridSize - 1 and is not an excluded cell; when one
\* cell only is free, the point returned is that cell.
C6_ReturnsFreeCell ==
    (RandCall /\ FreeCells # {} /\ call.pc = "returned")
    => /\ call.drawn[1] \in 0 .. call.gridSize - 1
       /\ call.drawn[2] \in 0 .. call.gridSize - 1
       /\ call.drawn \notin call.cells
       /\ \A c \in Cells(call.gridSize) : FreeCells = {c} => call.drawn = c

\* C6 witness: one cell of a grid of side 2 or more is free, the call has
\* returned it
C6_Witness ==
    /\ RandCall
    /\ call.gridSize >= 2
    /\ Cardinality(FreeCells) = 1
    /\ call.pc = "returned"
    /\ call.drawn \in FreeCells

\* C7: when the excluded set has gridSize * gridSize elements or more, the
\* call throws without drawing a point and without entering its loop; when
\* a cell of the grid is free the call does not throw and, the draws being
\* fair, it returns.
C7_ThrowsIffFull ==
    /\ []((RandCall /\ Cardinality(call.exclude) >= call.gridSize * call.gridSize)
            => call.pc \in {"called", "thrown"} /\ call.drawn = <<>>)
    /\ (RandCall /\ Cardinality(call.exclude) >= call.gridSize * call.gridSize)
            ~> (call.pc = "thrown")
    /\ []((RandCall /\ FreeCells # {}) => call.pc # "thrown")
    /\ (RandCall /\ FreeCells # {}) ~> (call.pc = "returned")

\* C7 witness: the call has thrown on a full grid of side 2 or more, no
\* point drawn
C7_Witness ==
    /\ RandCall
    /\ call.gridSize >= 2
    /\ FreeCells = {}
    /\ call.pc = "thrown"
    /\ call.drawn = <<>>

(***************************************************************************)
(* The claims about the game, checked under Spec                           *)
(***************************************************************************)
\* C8: in every reachable state of the game, after any sequence of frame
\* callbacks (those that run several catch-up steps included), direction
\* requests, pause toggles, resets and preset changes, the food cell is not
\* a cell of the snake.
C8_FoodOffSnake == food \notin CellsOf(snake)

\* C9: in every reachable state of the game the snake has one cell or more
\* and no cell twice, whatever the ticks and the accepted direction
\* requests.
C9_SnakeNoDuplicates == Len(snake) >= 1 /\ NoDuplicates(snake)

\* C9 witness: two ticks have run after an accepted turn and the snake has
\* eaten and grown
C9_Witness ==
    /\ ticks >= 2
    /\ directionRef # "RIGHT"
    /\ lastStepDir = directionRef
    /\ score >= 1
    /\ Len(snake) > Len(INITIAL_SNAKE)
    /\ NoDuplicates(snake)

\* C10: for any interleaving of direction requests and ticks, the direction
\* passed to a simulation step is never the exact opposite of the direction
\* used on the preceding step of the same game.
C10_NeverReverses ==
    [][(ticks' > ticks /\ lastStepDir # "none")
            => directionRef # OPPOSITES[lastStepDir]]_vars

\* the ticks of the callback that has just run
LoggedTicks == 1 .. Len(tickLog)

\* C11: when a step of the driver reports collision = true, that tick sets
\* gameOver and leaves the snake, the food, the score and the tick interval
\* as they were before the step; when it is the last tick of the callback
\* the game state is that state.
C11_CollisionEndsGame ==
    /\ \A i \in LoggedTicks :
        tickLog[i].collision
        => tickLog[i].post = [tickLog[i].pre EXCEPT !.gameOver = TRUE]
    /\ (tickLog # <<>> /\ tickLog[Len(tickLog)].collision)
        => /\ gameOver
           /\ snake = tickLog[Len(tickLog)].pre.snake
           /\ food = tickLog[Len(tickLog)].pre.food
           /\ score = tickLog[Len(tickLog)].pre.score
           /\ msPerTickRef = tickLog[Len(tickLog)].pre.ms

\* C11 witness: the one tick of a callback collided after an earlier
\* callback had moved the snake, and ended a game that was not over
C11_Witness ==
    /\ Len(tickLog) = 1
    /\ ticks = 2
    /\ tickLog[1].collision
    /\ ~tickLog[1].pre.gameOver
    /\ tickLog[1].pre.snake # INITIAL_SNAKE
    /\ gameOver
    /\ snake = tickLog[1].pre.snake

\* a reset: the New button or a change of board size
ResetStep == New \/ \E b \in BoardPresets : SelectBoard(b)

FreshGame(g) ==
    /\ snake' = <<<<0, 2>>, <<0, 1>>, <<0, 0>>>>
    /\ directionRef' = "RIGHT"
    /\ score' = 0
    /\ ~gameOver'
    /\ running'
    /\ runningRef'
    /\ food'[1] \in 0 .. g - 1
    /\ food'[2] \in 0 .. g - 1
    /\ food' \notin {<<0, 2>>, <<0, 1>>, <<0, 0>>}

\* C13: the New button, pressed in any state (running, paused or game
\* over), yields snake = [(0,2),(0,1),(0,0)], direction RIGHT, score 0,
\* gameOver false, running true and a food cell of the grid that is none of
\* the three snake cells.
C13_NewGivesFreshGame == [][New => FreshGame(gridSize)]_vars

\* C13 witness: the one handler call of the run was the New button, pressed
\* after the snake had moved
C13_Witness ==
    /\ inputs = 1
    /\ ticks >= 1
    /\ lastStepDir = "none"
    /\ boardPreset = "classic"
    /\ snake = INITIAL_SNAKE
    /\ score = 0
    /\ running
    /\ ~gameOver

\* C14: after a reset the tick interval is the base value of the speed
\* preset that is selected (slow 300 ms, normal 200 ms, fast 120 ms),
\* whatever preset was selected and however many foods were eaten before.
C14_ResetRestoresPresetSpeed ==
    [][ResetStep
        => msPerTickRef' = (IF speedLabel' = "slow" THEN 300000
                            ELSE IF speedLabel' = "normal" THEN 200000
                            ELSE 120000)]_vars

\* a callback of requestAnimationFrame runs
FrameStep == \E dt \in FrameDeltas, eager \in BOOLEAN : Frame(dt, eager)

\* C15: while the game is paused a callback performs no step and adds no
\* time to the accumulator; a callback that runs the game after one that
\* found it paused, or after no callback at all, does not count the time
\* elapsed since: it performs a step only when the time accumulated while
\* running had reached the tick interval, and otherwise leaves the
\* accumulator as it was.
C15_PausedTimeNotCounted ==
    [][FrameStep
        => /\ ~running
                => ticks' = ticks /\ acc' = acc /\ snake' = snake
           /\ (running /\ lastRef # "t")
                => /\ ticks' > ticks => acc >= msPerTickRef
                   /\ ticks' = ticks => acc' = acc]_vars

\* C15 witness: the game is paused with time in the accumulator, a
\* callback has found it paused and no step has been performed
C15_Witness ==
    /\ ~running
    /\ lastRef = "tPaused"
    /\ acc > 0
    /\ ticks = 0
    /\ snake = INITIAL_SNAKE

\* C16: the pause / resume toggle pauses a running game and resumes a
\* paused one: it inverts the running status, so that two toggles in a row
\* restore it, and it changes neither the snake, the food, the score, the
\* direction, the tick interval nor gameOver.
C16_ToggleFlipsRunningOnly ==
    [][TogglePause
        => /\ running' = ~running
           /\ snake' = snake
           /\ food' = food
           /\ score' = score
           /\ directionRef' = directionRef
           /\ msPerTickRef' = msPerTickRef
           /\ gameOver' = gameOver]_vars

\* C16 witness: a game that is not over is paused after the snake has moved
C16_Witness ==
    /\ ~running
    /\ ~gameOver
    /\ ticks >= 1
    /\ snake # INITIAL_SNAKE

\* C17: in every tick of the driver that does not collide, the second and
\* later ticks of a callback included, the score goes up by one exactly
\* when the new head lands on the food cell of the game state, and then the
\* food is replaced by a cell that is not a cell of the grown snake; in the
\* other ticks the score and the food are unchanged.
C17_ScoreIffHeadOnFood ==
    \A i \in LoggedTicks :
        LET pre == tickLog[i].pre
            post == tickLog[i].post
            landed == post.snake[1] = pre.food
        IN  ~tickLog[i].collision
            => /\ landed => /\ post.score = pre.score + 1
                            /\ Len(post.snake) = Len(pre.snake) + 1
                            /\ post.food \notin CellsOf(post.snake)
               /\ ~landed => /\ post.score = pre.score
                             /\ post.food = pre.food

\* the game, and beside it the speed-up of line 168 alone
TickIntervalNext == (call = NoCall /\ Next) \/ SpeedNext

TickIntervalSpec == (Init \/ SpeedInit) /\ [][TickIntervalNext]_vars

\* C18: a tick that eats sets the tick interval to max(40 ms, 0.95 * the
\* interval before) and no other tick changes it, so that the interval
\* goes up by a reset or a speed selection only and is never under 40 ms;
\* food after food the interval comes down to 40 ms and stays there.
C18_IntervalShrinksToFloor ==
    [][/\ call'.fn = "speedUp"
            => /\ call'.ms <= call'.before
               /\ call'.ms >= 40000
               /\ call'.before = 40000 => call'.ms = 40000
               /\ call'.eats >= 40 => call'.ms = 40000
       /\ \A i \in 1 .. Len(tickLog') :
            LET before == tickLog'[i].pre.ms
                after == tickLog'[i].post.ms
                scaled == (before * 95) \div 100
            IN  /\ tickLog'[i].ate
                    => after = (IF scaled > 40000 THEN scaled ELSE 40000)
                /\ ~tickLog'[i].ate => after = before
       /\ tickLog' # <<>>
            => /\ tickLog'[1].pre.ms = msPerTickRef
               /\ tickLog'[Len(tickLog')].post.ms = msPerTickRef'
       /\ msPerTickRef' > msPerTickRef
            => ResetStep \/ \E l \in SpeedLabels : SelectSpeed(l)
       /\ msPerTickRef' # msPerTickRef
            => FrameStep \/ ResetStep \/ \E l \in SpeedLabels : SelectSpeed(l)
       /\ msPerTickRef' >= 40000]_vars

\* C18 witness: a tick has eaten and the interval is 95% of the preset's
\* 200 ms
C18_Witness ==
    /\ tickLog # <<>>
    /\ tickLog[Len(tickLog)].ate
    /\ tickLog[Len(tickLog)].pre.ms = 200000
    /\ msPerTickRef = 190000

C20_SpeedChangeResets ==
    [][(\E l \in SpeedLabels : SelectSpeed(l))
        => /\ snake' = <<<<0, 2>>, <<0, 1>>, <<0, 0>>>>
           /\ score' = 0
           /\ directionRef' = "RIGHT"
           /\ msPerTickRef' = (IF speedLabel' = "slow" THEN 300000
                               ELSE IF speedLabel' = "normal" THEN 200000
                               ELSE 120000)]_vars

(***************************************************************************)
(* The claims about the best score, checked under HighScoreSpec            *)
(***************************************************************************)
\* C21: the best score changes only in a step that leaves the game over
\* with a score above the best score, and it becomes that score; with a
\* working localStorage the stored value changes in those steps only and
\* becomes the decimal string of that score; the best score never goes down
\* and, while the component is mounted and the game is over, it is at least
\* the score.
C21_BestScoreUpdate ==
    [][/\ highScore' # highScore
            => /\ gameOver'
               /\ score' > highScore
               /\ highScore' = score'
       /\ storageMode = "works"
            => /\ storage' # storage <=> highScore' # highScore
               /\ storage' # storage => storage' = ToString(score')
       /\ highScore' >= highScore
       /\ (mounted' /\ gameOver') => highScore' >= score']_vars

\* C21 witness: a game ended with a score above the best score, which is now
\* that score in memory and in localStorage
C21_Witness ==
    /\ gameOver
    /\ score > 0
    /\ tickLog # <<>>
    /\ highScore = score
    /\ storage = ToString(score)

\* C22: when reading localStorage throws, the component mounts with a best
\* score of 0 whatever is stored; when writing throws, the stored value
\* stays and the best score in memory is still updated; in a session where
\* localStorage fails no step crashes or unmounts the component by an
\* error, and after every callback the snake, the food, the score and
\* gameOver are what its ticks left, with running untouched.
C22_StorageFailuresSwallowed ==
    /\ []((ReadThrows(storageMode) /\ idleTime < 0) => highScore = 0)
    /\ [][storageMode # "works"
            => /\ ~crashed'
               /\ mounted' \/ Unmount
               /\ WriteThrows(storageMode) => storage' = storage
               /\ (gameOver' /\ score' > highScore) => highScore' = score'
               /\ tickLog' # <<>>
                    => LET last == tickLog'[Len(tickLog')].post
                       IN  /\ snake' = last.snake
                           /\ food' = last.food
                           /\ score' = last.score
                           /\ gameOver' = last.gameOver
                           /\ running' = running]_vars

\* C22 witness: with localStorage blocked, a game ended with a score above
\* the best score: the best score in memory is that score, nothing is
\* stored and the component is still mounted
C22_Witness ==
    /\ storageMode = "blocked"
    /\ storage = "null"
    /\ gameOver
    /\ score > 0
    /\ highScore = score
    /\ mounted
    /\ ~crashed

(***************************************************************************)
(* The claims about the loop driver, checked under Spec                    *)
(***************************************************************************)
\* C23: in a game that was mounted at the normal speed and that no handler
\* has touched, once the callbacks have seen 400 ms pass since the first of
\* them at least one simulation step has been applied, and until 600 ms
\* have passed the head is not on its initial cell (0,2).
C23_MovesWithin400ms ==
    (mounted /\ idleTime >= 400000)
        => /\ ticks >= 1
           /\ idleTime < 600000 => snake[1] # <<0, 2>>

\* C23 witness: 400 ms after the first callback of an untouched game the
\* snake has made two steps to the right, around the border
C23_Witness ==
    /\ mounted
    /\ inputs = 0
    /\ idleTime = 400000
    /\ ticks = 2
    /\ snake[1] = <<0, (2 + 2) % CLASSIC_GRID>>

\* C24: a callback that ran the game with tick interval T and accumulator
\* A after the elapsed time was added, and in which no tick ate, performed
\* floor(A / T) simulation steps and returned with the accumulator at
\* A - floor(A / T) * T; every callback that ran the game returned with
\* 0 <= accumulator < msPerTick.
C24_AccumulatorArithmetic ==
    frameLog.ran
        => /\ (\A i \in LoggedTicks : ~tickLog[i].ate)
                => /\ frameLog.n = frameLog.total \div frameLog.interval
                   /\ Len(tickLog) = frameLog.n
                   /\ frameLog.acc = frameLog.total
                        - (frameLog.total \div frameLog.interval)
                            * frameLog.interval
           /\ 0 <= frameLog.acc
           /\ frameLog.acc < frameLog.ms

\* C24 witness: at the slow speed a callback came 400 ms after the previous
\* one: one step, 100 ms left in the accumulator
C24_Witness ==
    /\ frameLog.ran
    /\ frameLog.interval = 300000
    /\ frameLog.total = 400000
    /\ frameLog.n = 1
    /\ frameLog.acc = 100000
    /\ ~tickLog[1].ate

\* a direction request is handled, by key, pad or swipe
RequestStep == \E d \in Direction : RequestDirection(d)

\* C25: every step of the callback that has just run went in the direction
\* of the latest request accepted before it, RIGHT when none was accepted
\* since the reset: a step that did not collide put the head one cell that
\* way, a step that collided found a cell of the snake there; and a request
\* handled after a step leaves the snake, the food, the score and gameOver
\* as the step left them.
C25_StepUsesLatestAcceptedDirection ==
    /\ [](\A i \in LoggedTicks :
            LET pre == tickLog[i].pre
                post == tickLog[i].post
                target == Toward(pre.snake[1], lastAccepted, gridSize)
            IN  /\ lastStepDir = lastAccepted
                /\ (~tickLog[i].collision /\ ~tickLog[i].thrown)
                        => post.snake[1] = target
                /\ tickLog[i].collision => target \in CellsOf(pre.snake))
    /\ [][RequestStep => /\ snake' = snake
                         /\ food' = food
                         /\ score' = score
                         /\ gameOver' = gameOver]_vars

\* C25 witness: DOWN was accepted, then LEFT, and the step that followed
\* moved the head one cell to the left of the initial head
C25_Witness ==
    /\ Len(tickLog) = 1
    /\ ticks = 2
    /\ inputs = 2
    /\ lastAccepted = "LEFT"
    /\ ~tickLog[1].collision
    /\ tickLog[1].pre.snake[1] = <<1, 2>>
    /\ snake[1] = <<1, 1>>

(***************************************************************************)
(* A further claim about stepSnake, checked under StepSpec                 *)
(***************************************************************************)
\* C26: a call of stepSnake that reports no collision returns the candidate
\* head followed by the segments of the input snake in their order: all of
\* them when ate is true, all but the last when ate is false.
C26_HeadThenBody ==
    (StepReturned /\ ~call.result.collision)
        => LET prev == call.prev
               next == call.result.snake
               kept == IF call.result.ate THEN Len(prev) ELSE Len(prev) - 1
           IN  /\ Len(next) = 1 + kept
               /\ next[1] = Candidate
               /\ \A i \in 1 .. kept : next[i + 1] = prev[i]

\* C26 witness: a snake of four segments moved without eating: the first
\* three segments follow the candidate head
C26_Witness ==
    /\ StepReturned
    /\ ~call.result.collision
    /\ ~call.result.ate
    /\ Len(call.prev) = 4
    /\ Len(call.result.snake) = 4
    /\ call.result.snake[4] = call.prev[3]

(***************************************************************************)
(* The claim about the errors of a tick, checked under EndgameSpec         *)
(***************************************************************************)
\* the snake a step that ate would have returned: the cell the head moved
\* to, then the snake before the step
Grown(before) ==
    <<Toward(before[1], lastStepDir, gridSize)>> \o before

\* C27: a tick of the driver raised an error only if its step ate and the
\* grown snake covers every cell of the grid; a tick that collided or did
\* not eat raised nothing; the component is brought down by an error only
\* after such a tick.
C27_ThrowsOnlyOnFullBoard ==
    /\ \A i \in LoggedTicks :
        tickLog[i].thrown
            => /\ tickLog[i].ate
               /\ ~tickLog[i].collision
               /\ CellsOf(Grown(tickLog[i].pre.snake)) = Cells(gridSize)
               /\ Len(tickLog[i].pre.snake) + 1 = gridSize * gridSize
    /\ crashed => \E i \in LoggedTicks : tickLog[i].thrown

\* C27 witness: the snake ate the food on the last free cell and
\* randPointExcluding threw: the component is down
C27_Witness ==
    /\ crashed
    /\ tickLog # <<>>
    /\ tickLog[Len(tickLog)].thrown
    /\ tickLog[Len(tickLog)].ate
    /\ Len(tickLog[Len(tickLog)].pre.snake) = gridSize * gridSize - 1

(***************************************************************************)
(* Further claims about the game, checked under Spec                       *)
(***************************************************************************)
\* C28: requestAnimationFrame never holds more than one callback, and never
\* one of a loop that was torn down; it holds one exactly while the
\* component is mounted and the game is not over, rafRef says so, and the
\* loop that callback belongs to is the one set up by the latest render
\* with a new food: the only loop that steps the game.
C28_OneLiveCallback ==
    /\ pending.stale = 0
    /\ pending.live \in {0, 1}
    /\ pending.live = 1 <=> (mounted /\ ~gameOver)
    /\ pending.live = 1 <=> rafRef = "scheduled"
    /\ pending.live = 1 => (loopFood = food /\ loopGrid = gridSize)

\* C28 witness: a tick ate, the loop was torn down and set up again: one
\* callback is pending, of the new loop, which has seen no callback yet
C28_Witness ==
    /\ tickLog # <<>>
    /\ tickLog[Len(tickLog)].ate
    /\ pending = [live |-> 1, stale |-> 0]
    /\ lastRef = "null"
    /\ acc = 0
    /\ loopFood = food
    /\ loopFood # tickLog[1].pre.food

(***************************************************************************)
(* Claims about the game from its mount to the end of a long game,         *)
(* checked under EndgameSpec                                               *)
(***************************************************************************)
\* C29: while the component is mounted the score is the length of the snake
\* less 3 and the snake has 3 segments or more; in a step that is not a
\* reset (the New button or a change of board) neither the length of the
\* snake nor the score goes down.
C29_ScoreIsLengthLessThree ==
    /\ [](mounted => (score = Len(snake) - 3 /\ Len(snake) >= 3))
    /\ [][ResetStep \/ (Len(snake') >= Len(snake) /\ score' >= score)]_vars

\* C29 witness: two ticks ate one after the other in a game from its mount
C29_Witness ==
    /\ mounted
    /\ ticks = 2
    /\ score = 2
    /\ Len(snake) = 5

ToroidallyAdjacent(p, q, g) ==
    \/ p[1] = q[1] /\ (p[2] - q[2]) % g \in {1, g - 1}
    \/ p[2] = q[2] /\ (p[1] - q[1]) % g \in {1, g - 1}

C32_RequestChangesDirectionOnly ==
    [][\A d \in Direction :
          RequestDirection(d)
              => /\ snake' = snake
                 /\ food' = food
                 /\ score' = score
                 /\ msPerTickRef' = msPerTickRef
                 /\ acc' = acc
                 /\ running' = running
                 /\ runningRef' = runningRef
                 /\ gameOver' = gameOver
                 /\ boardPreset' = boardPreset
                 /\ speedLabel' = speedLabel
                 /\ highScore' = highScore
                 /\ storage' = storage
                 /\ lastRef' = lastRef
                 /\ rafRef' = rafRef
                 /\ pending' = pending
                 /\ loopFood' = loopFood
                 /\ loopGrid' = loopGrid
                 /\ crashed' = crashed
                 /\ directionRef' = IF OPPOSITES[d] = directionRef
                                    THEN directionRef ELSE d]_vars

\* C32 witness: the game ended on a step to the left and a request for
\* DOWN was accepted after it: the game is still over, the snake is still
\* the one that collided and the pending direction is DOWN
C32_Witness ==
    /\ mounted
    /\ gameOver
    /\ inputs = 3
    /\ ticks >= 1
    /\ lastStepDir = "LEFT"
    /\ directionRef = "DOWN"
    /\ lastAccepted = "DOWN"
    /\ snake = INITIAL_SNAKE
    /\ score = 0

\* C33: selecting a speed preset other than the selected one sets the tick
\* interval to exactly the base value of that preset, 300 ms for slow, 200
\* ms for normal and 120 ms for fast, whatever speed-up eaten food had
\* earned, and leaves the snake, the food, the score, the pending
\* direction, the running flag, gameOver, the board and the accumulator
\* unchanged.
C33_SpeedPresetSetsBaseInterval ==
    [][\A l \in SpeedLabels :
          SelectSpeed(l)
              => /\ l # speedLabel
                 /\ speedLabel' = l
                 /\ msPerTickRef' = CASE l = "slow" -> 300000
                                      [] l = "normal" -> 200000
                                      [] l = "fast" -> 120000
                 /\ snake' = snake
                 /\ food' = food
                 /\ score' = score
                 /\ directionRef' = directionRef
                 /\ running' = running
                 /\ runningRef' = runningRef
                 /\ gameOver' = gameOver
                 /\ boardPreset' = boardPreset
                 /\ acc' = acc]_vars

\* C33 witness: the snake turned and ate once at normal speed, which
\* shortened the interval to 190 ms, and then fast was selected: the
\* interval is the 120 ms of the preset and the score is still 1
C33_Witness ==
    /\ mounted
    /\ ~crashed
    /\ inputs = 2
    /\ lastStepDir # "RIGHT"
    /\ score = 1
    /\ Len(snake) = 4
    /\ speedLabel = "fast"
    /\ msPerTickRef = 120000

====
